---- MODULE Spec2Model ----
(***************************************************************************)
(* The AnimalList view with client-side region filter and pagination       *)
(* (src/unnamed/part_000): one load of the whole catalogue, a filtered     *)
(* view derived from it, and a page cursor over the filtered view.         *)
(*                                                                         *)
(* The server-paged AnimalList (src/src/components/ui/AnimalList.tsx)      *)
(* follows: one load per page, started by the effect on currentPage.  The  *)
(* two components declare currentPage, isLoading and error alike; a        *)
(* behaviour is a run of one of them (Spec, FairSpec: the filtered view;   *)
(* PagedSpec, ReloadSpec: the server-paged view; ViewsSpec: either).       *)
(***************************************************************************)
EXTENDS Integers, Sequences, FiniteSets, TLC

VARIABLES
    allAnimals,      \* useState<Animal[]>([])            (a JS value)
    currentPage,     \* useState(1)
    isLoading,       \* useState(true)
    error,           \* useState<string | null>(null)
    selectedRegion,  \* useState<string>('all')
    pc,              \* where fetchAllAnimals stands
    fetchCalls,      \* how many times fetch(...) was called
    last,            \* history: the event handled last and the state before it
    animals,         \* server-paged view: useState<Animal[]>([])
    totalPagesState, \* server-paged view: its state totalPages, useState(1)
    inflight,        \* server-paged view: the calls of fetchAnimals not yet settled
    settled          \* history: the call of fetchAnimals that settled last

\* the state only the server-paged view has
pagedVars == <<animals, totalPagesState, inflight, settled>>

vars == <<allAnimals, currentPage, isLoading, error, selectedRegion, pc, fetchCalls, last,
          animals, totalPagesState, inflight, settled>>

---------------------------------------------------------------------------
(* Bounds of the model *)

\* the largest number of records a response carries
MaxLen == 45
\* the longest region pattern a response's records repeat
MaxPat == 3

---------------------------------------------------------------------------
(* Constants of the program *)

allRegions ==
    << "Arica y Parinacota", "Tarapacá", "Antofagasta", "Atacama", "Coquimbo",
       "Valparaíso", "RM", "O'Higgins", "Maule", "Ñuble", "Biobío",
       "La Araucanía", "Los Ríos", "Los Lagos", "Aisén",
       "Magallanes y Antártica Chilena" >>

ITEMS_PER_PAGE == 20

null == "null"

ErrorMessage == "Error fetching animals. Please try again later."

---------------------------------------------------------------------------
(* JavaScript values and library functions the component uses *)

undefined == [type |-> "undefined", elems |-> <<>>]

Array(s) == [type |-> "array", elems |-> s]

Max(a, b) == IF a >= b THEN a ELSE b

Min(a, b) == IF a <= b THEN a ELSE b

\* Math.ceil(a / b) for a >= 0, b >= 1
MathCeil(a, b) == IF a % b = 0 THEN a \div b ELSE (a \div b) + 1

\* Array.prototype.slice(start, end), negative indices counting from the end
Slice(s, start, end) ==
    LET len   == Len(s)
        k     == IF start < 0 THEN Max(len + start, 0) ELSE Min(start, len)
        final == IF end < 0 THEN Max(len + end, 0) ELSE Min(end, len)
    IN  IF k >= final THEN <<>> ELSE SubSeq(s, k + 1, final)

Range(s) == { s[i] : i \in DOMAIN s }

---------------------------------------------------------------------------
(* The responses the remote endpoint may give *)

\* region values of the records: two canonical ones, listed here against the
\* canonical order, and one the canonical list does not hold
RegionPool == { "Biobío", "Arica y Parinacota", "Isla de Pascua" }

Patterns == UNION { [1..k -> RegionPool] : k \in 1..MaxPat }

\* n records with ids 1..n whose regions repeat the pattern pat
Dataset(n, pat) ==
    [ i \in 1..n |-> [id |-> i, region |-> pat[((i - 1) % Len(pat)) + 1]] ]

Datasets == { Dataset(n, pat) : n \in 0..MaxLen, pat \in Patterns }

\* what response.json() resolves to: JSON null, a value without `data`,
\* or an object whose `data` is an array of records
Bodies ==
    { [type |-> "null", data |-> undefined],
      [type |-> "object", data |-> undefined] }
    \cup { [type |-> "object", data |-> Array(d)] : d \in Datasets }

BodyKind(body) ==
    IF body.type = "null" THEN "null"
    ELSE IF body.data.type = "undefined" THEN "nodata" ELSE "data"

---------------------------------------------------------------------------
(* Derived values, computed on every render *)

\* a filter that treats the sentinel 'all' as one more region value
filteredAnimalsNoSentinel ==
    Array(SelectSeq(allAnimals.elems, LAMBDA animal : animal.region = selectedRegion))

filteredAnimals ==
    IF selectedRegion = "all"
    THEN allAnimals
    ELSE Array(SelectSeq(allAnimals.elems, LAMBDA animal : animal.region = selectedRegion))

\* a region list that offers the canonical regions whether present or not
availableRegionsAll == SelectSeq(allRegions, LAMBDA region : TRUE)

\* a region list made of the regions of the records, in order of appearance
availableRegionsOfRecords ==
    LET e     == allAnimals.elems
        first == SelectSeq(e, LAMBDA a : \A j \in 1..(a.id - 1) : e[j].region # a.region)
    IN  [ i \in DOMAIN first |-> first[i].region ]

availableRegions ==
    LET regions == { allAnimals.elems[i].region : i \in DOMAIN allAnimals.elems }
    IN  SelectSeq(allRegions, LAMBDA region : region \in regions)

\* a page count that rounds down
totalPagesFloor == Len(filteredAnimals.elems) \div ITEMS_PER_PAGE

totalPages == MathCeil(Len(filteredAnimals.elems), ITEMS_PER_PAGE)

\* a slice that starts one page late
PageSliceOffByOne(page) ==
    LET startIndex == page * ITEMS_PER_PAGE
    IN  Slice(filteredAnimals.elems, startIndex, startIndex + ITEMS_PER_PAGE)

\* the slice of page `page` of the filtered records
PageSlice(page) ==
    LET startIndex == (page - 1) * ITEMS_PER_PAGE
    IN  Slice(filteredAnimals.elems, startIndex, startIndex + ITEMS_PER_PAGE)

currentAnimals == PageSlice(currentPage)

\* allAnimals.map(...) and filteredAnimals.length throw on a value that is no array
RenderThrows == allAnimals.type # "array"

\* what the component returns
View ==
    IF RenderThrows THEN "crashed"
    ELSE IF isLoading THEN "loading"
    ELSE IF error # null THEN "error"
    ELSE "list"

\* the records handed to the presentation layer
ShownAnimals == IF View = "list" THEN currentAnimals ELSE <<>>

---------------------------------------------------------------------------
(* History *)

\* no call of fetchAnimals has settled
NoCall ==
    [id |-> 0, page |-> 0, ok |-> TRUE, data |-> Array(<<>>), last_page |-> 1,
     failures |-> 0, prevId |-> 0, prevData |-> Array(<<>>)]

Event(op, arg, n) ==
    [op |-> op, arg |-> arg, n |-> n, page |-> currentPage, region |-> selectedRegion]

---------------------------------------------------------------------------
(* The load: useEffect(() => fetchAllAnimals(), []) *)

Init ==
    /\ allAnimals = Array(<<>>)
    /\ currentPage = 1
    /\ isLoading = TRUE
    /\ error = null
    /\ selectedRegion = "all"
    /\ pc = "mount"
    /\ fetchCalls = 0
    /\ last = [op |-> "init", arg |-> "", n |-> 0, page |-> 1, region |-> "all"]
    /\ animals = Array(<<>>)
    /\ totalPagesState = 1
    /\ inflight = {}
    /\ settled = NoCall

\* fetchAllAnimals up to its first await
FetchStart ==
    /\ pc = "mount"
    /\ isLoading' = TRUE
    /\ error' = null
    /\ pc' = "fetch"
    /\ fetchCalls' = fetchCalls + 1
    /\ last' = Event("fetchStart", "", 0)
    /\ UNCHANGED <<allAnimals, currentPage, selectedRegion, pagedVars>>

\* a catch block that logs the failure and sets no error
CatchFinallyNoError ==
    /\ error' = error
    /\ isLoading' = FALSE
    /\ pc' = "done"
    /\ UNCHANGED <<allAnimals, currentPage, selectedRegion, fetchCalls, pagedVars>>

\* a catch block that sets the error and calls fetchAllAnimals again
CatchFinallyRetry ==
    /\ error' = ErrorMessage
    /\ isLoading' = FALSE
    /\ pc' = "mount"
    /\ UNCHANGED <<allAnimals, currentPage, selectedRegion, fetchCalls, pagedVars>>

\* the catch block followed by the finally block
CatchFinally ==
    /\ error' = ErrorMessage
    /\ isLoading' = FALSE
    /\ pc' = "done"
    /\ UNCHANGED <<allAnimals, currentPage, selectedRegion, fetchCalls, pagedVars>>

\* fetch(...) rejects
FetchRejected ==
    /\ pc = "fetch"
    /\ CatchFinally
    /\ last' = Event("fetchRejected", "", 0)

\* fetch(...) resolves with a response whose status is not a success
FetchBadResponse ==
    /\ pc = "fetch"
    /\ CatchFinally
    /\ last' = Event("badResponse", "", 0)

\* fetch(...) resolves with response.ok: response.json() is awaited
FetchOk ==
    /\ pc = "fetch"
    /\ pc' = "json"
    /\ last' = Event("fetchOk", "", 0)
    /\ UNCHANGED <<allAnimals, currentPage, isLoading, error, selectedRegion, fetchCalls, pagedVars>>

\* response.json() rejects: the body is no JSON
JsonRejected ==
    /\ pc = "json"
    /\ CatchFinally
    /\ last' = Event("jsonRejected", "", 0)

\* a success path that installs the data and leaves the loading flag set
InstallDataNoFinally(body) ==
    /\ allAnimals' = body.data
    /\ isLoading' = isLoading
    /\ pc' = "done"
    /\ UNCHANGED <<currentPage, error, selectedRegion, fetchCalls, pagedVars>>

\* setAllAnimals(data.data) followed by the finally block
InstallData(body) ==
    /\ allAnimals' = body.data
    /\ isLoading' = FALSE
    /\ pc' = "done"
    /\ UNCHANGED <<currentPage, error, selectedRegion, fetchCalls, pagedVars>>

\* response.json() resolves with `body`
JsonResolved(body) ==
    /\ pc = "json"
    /\ IF body.type = "null"
       THEN CatchFinally        \* data.data throws a TypeError inside the try
       ELSE InstallData(body)
    /\ last' = Event("jsonResolved", BodyKind(body), 0)

JsonResolves ==
    /\ pc = "json"
    /\ \E body \in Bodies : JsonResolved(body)

---------------------------------------------------------------------------
(* The handlers of the rendered list *)

\* a handler that sets the filter and leaves the page where it was
handleRegionChangeKeepsPage(value) ==
    /\ selectedRegion' = value
    /\ currentPage' = currentPage
    /\ last' = Event("region", value, 0)
    /\ UNCHANGED <<allAnimals, isLoading, error, pc, fetchCalls, pagedVars>>

handleRegionChange(value) ==
    /\ selectedRegion' = value
    /\ currentPage' = 1
    /\ last' = Event("region", value, 0)
    /\ UNCHANGED <<allAnimals, isLoading, error, pc, fetchCalls, pagedVars>>

\* the Select offers 'all' and the available regions
SelectRegion ==
    /\ View = "list"
    /\ \E value \in {"all"} \cup Range(availableRegions) : handleRegionChange(value)

\* prev => Math.max(prev - 1, 1)
PreviousPage(prev) == Max(prev - 1, 1)

\* prev => Math.min(prev + 1, totalPages)
NextPage(prev) == Min(prev + 1, totalPages)

Previous ==
    /\ View = "list"
    /\ ~(currentPage = 1)                \* disabled={currentPage === 1}
    /\ currentPage' = PreviousPage(currentPage)
    /\ last' = Event("previous", "", 0)
    /\ UNCHANGED <<allAnimals, isLoading, error, selectedRegion, pc, fetchCalls, pagedVars>>

\* the page each PaginationLink shows and sets: index + 1 for every index
\* of [...Array(totalPages)]
PageLinks == { index + 1 : index \in 0..(totalPages - 1) }

\* page links that start a load, as a server-paged list would
GoToPageReloads ==
    /\ View = "list"
    /\ \E page \in PageLinks :
          /\ currentPage' = page
          /\ last' = Event("goto", "", page)
    /\ isLoading' = TRUE
    /\ UNCHANGED <<allAnimals, error, selectedRegion, pc, fetchCalls, pagedVars>>

\* page links that set the 0-based index as the page
GoToPageZeroBased ==
    /\ View = "list"
    /\ \E page \in PageLinks :
          /\ currentPage' = page - 1
          /\ last' = Event("goto", "", page)
    /\ UNCHANGED <<allAnimals, isLoading, error, selectedRegion, pc, fetchCalls, pagedVars>>

\* onClick={() => setCurrentPage(index + 1)} of a PaginationLink
GoToPage ==
    /\ View = "list"
    /\ \E page \in PageLinks :
          /\ currentPage' = page
          /\ last' = Event("goto", "", page)
    /\ UNCHANGED <<allAnimals, isLoading, error, selectedRegion, pc, fetchCalls, pagedVars>>

Next_ ==
    /\ View = "list"
    /\ ~(currentPage = totalPages)       \* disabled={currentPage === totalPages}
    /\ currentPage' = NextPage(currentPage)
    /\ last' = Event("next", "", 0)
    /\ UNCHANGED <<allAnimals, isLoading, error, selectedRegion, pc, fetchCalls, pagedVars>>

---------------------------------------------------------------------------

Next ==
    \/ FetchStart
    \/ FetchRejected
    \/ FetchBadResponse
    \/ FetchOk
    \/ JsonRejected
    \/ JsonResolves
    \/ SelectRegion
    \/ Previous
    \/ GoToPage
    \/ Next_

Spec == Init /\ [][Next]_vars

\* the effect runs once the view is mounted, and the network call and the
\* reading of the body each resolve or reject in the end
Fairness ==
    /\ WF_vars(FetchStart)
    /\ WF_vars(FetchRejected \/ FetchBadResponse \/ FetchOk)
    /\ WF_vars(JsonRejected \/ JsonResolves)

FairSpec == Init /\ [][Next]_vars /\ Fairness

---------------------------------------------------------------------------
(* The server-paged AnimalList: bounds *)

\* the most calls of fetchAnimals in a behaviour
MaxCalls == 3
\* the largest meta.last_page a response carries
MaxLastPage == 2
\* the most records a page of the server carries
MaxPageLen == 1

---------------------------------------------------------------------------
(* The server-paged AnimalList: responses *)

PagedData == { Dataset(n, <<"Biobío">>) : n \in 0..MaxPageLen }

\* what response.json() resolves to: JSON null, or an object with or without
\* `data` and with or without `meta`
PagedBodies ==
    { [type |-> "null", data |-> undefined, meta |-> FALSE, last_page |-> 0] }
    \cup { [type |-> "object", data |-> d, meta |-> FALSE, last_page |-> 0] :
              d \in {undefined} \cup { Array(x) : x \in PagedData } }
    \cup { [type |-> "object", data |-> d, meta |-> TRUE, last_page |-> lp] :
              d \in {undefined} \cup { Array(x) : x \in PagedData },
              lp \in 0..MaxLastPage }

\* a call of fetchAnimals that has not settled
Call(id, page, stage) == [id |-> id, page |-> page, stage |-> stage]

\* the call r settled: with the data and last_page of its body, or in the catch block
Settled(r, ok, data, lp) ==
    [id |-> r.id, page |-> r.page, ok |-> ok, data |-> data, last_page |-> lp,
     failures |-> settled.failures + (IF ok THEN 0 ELSE 1),
     prevId |-> settled.id, prevData |-> settled.data]

---------------------------------------------------------------------------
(* The server-paged AnimalList: rendering *)

\* what the component returns; animals.map throws on a value that is no array
PagedView ==
    IF isLoading THEN "loading"
    ELSE IF error # null THEN "error"
    ELSE IF animals.type # "array" THEN "crashed"
    ELSE "list"

\* the records handed to the presentation layer
PagedShownAnimals == IF PagedView = "list" THEN animals.elems ELSE <<>>

---------------------------------------------------------------------------
(* The server-paged AnimalList: the load *)

\* a fetchAnimals that issues the call and leaves the loading flag as it is
fetchAnimalsNoLoadingFlag(page) ==
    /\ fetchCalls < MaxCalls
    /\ isLoading' = isLoading
    /\ error' = null
    /\ fetchCalls' = fetchCalls + 1
    /\ inflight' = inflight \cup { Call(fetchCalls + 1, page, "fetch") }

\* fetchAnimals(page) up to its first await
fetchAnimals(page) ==
    /\ fetchCalls < MaxCalls
    /\ isLoading' = TRUE
    /\ error' = null
    /\ fetchCalls' = fetchCalls + 1
    /\ inflight' = inflight \cup { Call(fetchCalls + 1, page, "fetch") }

\* the effect on [currentPage], at mount
PagedMount ==
    /\ pc = "mount"
    /\ pc' = "mounted"
    /\ fetchAnimals(currentPage)
    /\ last' = Event("pagedMount", "", 0)
    /\ UNCHANGED <<currentPage, animals, totalPagesState, settled, allAnimals, selectedRegion>>

\* the catch block followed by the finally block, for the call r
PagedCatchFinally(r) ==
    /\ error' = ErrorMessage
    /\ isLoading' = FALSE
    /\ inflight' = inflight \ {r}
    /\ settled' = Settled(r, FALSE, animals', totalPagesState')
    /\ UNCHANGED <<currentPage, pc, fetchCalls, allAnimals, selectedRegion>>

\* fetch(...) of a call rejects
PagedFetchRejected ==
    \E r \in inflight :
        /\ r.stage = "fetch"
        /\ UNCHANGED <<animals, totalPagesState>>
        /\ PagedCatchFinally(r)
        /\ last' = Event("pagedFetchRejected", "", r.id)

\* fetch(...) of a call resolves with a status that is no success
PagedFetchBadResponse ==
    \E r \in inflight :
        /\ r.stage = "fetch"
        /\ UNCHANGED <<animals, totalPagesState>>
        /\ PagedCatchFinally(r)
        /\ last' = Event("pagedBadResponse", "", r.id)

\* fetch(...) of a call resolves with response.ok: response.json() is awaited
PagedFetchOk ==
    \E r \in inflight :
        /\ r.stage = "fetch"
        /\ inflight' = (inflight \ {r}) \cup { Call(r.id, r.page, "json") }
        /\ last' = Event("pagedFetchOk", "", r.id)
        /\ UNCHANGED <<currentPage, isLoading, error, pc, fetchCalls, animals,
                       totalPagesState, settled, allAnimals, selectedRegion>>

\* response.json() of a call rejects
PagedJsonRejected ==
    \E r \in inflight :
        /\ r.stage = "json"
        /\ UNCHANGED <<animals, totalPagesState>>
        /\ PagedCatchFinally(r)
        /\ last' = Event("pagedJsonRejected", "", r.id)

\* a continuation that drops the response of any call but the newest
PagedInstallIfNewest(r, body) ==
    /\ IF r.id = fetchCalls
       THEN animals' = body.data /\ totalPagesState' = body.last_page
       ELSE UNCHANGED <<animals, totalPagesState>>
    /\ isLoading' = FALSE
    /\ inflight' = inflight \ {r}
    /\ UNCHANGED <<currentPage, error, pc, fetchCalls, allAnimals, selectedRegion>>

\* setAnimals(data.data); setTotalPages(data.meta.last_page); the finally block
PagedInstall(r, body) ==
    /\ animals' = body.data
    /\ totalPagesState' = body.last_page
    /\ isLoading' = FALSE
    /\ inflight' = inflight \ {r}
    /\ UNCHANGED <<currentPage, error, pc, fetchCalls, allAnimals, selectedRegion>>

\* response.json() of the call r resolves with `body`
PagedJsonResolved(r, body) ==
    /\ r.stage = "json"
    /\ IF body.type = "null"
       THEN \* data.data throws a TypeError
            /\ UNCHANGED <<animals, totalPagesState>>
            /\ PagedCatchFinally(r)
       ELSE IF ~body.meta
       THEN \* setAnimals(data.data) is called, then data.meta.last_page throws
            /\ animals' = body.data
            /\ UNCHANGED totalPagesState
            /\ PagedCatchFinally(r)
       ELSE /\ PagedInstall(r, body)
            /\ settled' = Settled(r, TRUE, body.data, body.last_page)
    /\ last' = Event("pagedJsonResolved",
                     IF body.type = "null" THEN "null"
                     ELSE IF ~body.meta THEN "nometa"
                     ELSE IF body.data.type = "undefined" THEN "nodata" ELSE "data",
                     r.id)

PagedJsonResolves ==
    \E r \in inflight : \E body \in PagedBodies : PagedJsonResolved(r, body)

---------------------------------------------------------------------------
(* The server-paged AnimalList: the handlers of the rendered list *)

\* a page change that starts no load, as an effect with no dependency would
setCurrentPageNoFetch(page) ==
    /\ currentPage' = page
    /\ UNCHANGED <<isLoading, error, fetchCalls, inflight>>

\* setCurrentPage(page) and, when the page changed, the effect on
\* [currentPage], which calls fetchAnimals(currentPage)
setCurrentPage(page) ==
    IF page = currentPage
    THEN UNCHANGED <<currentPage, isLoading, error, fetchCalls, inflight>>
    ELSE /\ currentPage' = page
         /\ fetchAnimals(page)

PagedPrevious ==
    /\ pc = "mounted"
    /\ PagedView = "list"
    /\ ~(currentPage = 1)                     \* disabled={currentPage === 1}
    /\ setCurrentPage(Max(currentPage - 1, 1))
    /\ last' = Event("pagedPrevious", "", 0)
    /\ UNCHANGED <<pc, animals, totalPagesState, settled, allAnimals, selectedRegion>>

\* one PaginationLink per index of [...Array(totalPages)]
PagedGoToPage ==
    /\ pc = "mounted"
    /\ PagedView = "list"
    /\ \E index \in 0..(totalPagesState - 1) :
          /\ setCurrentPage(index + 1)
          /\ last' = Event("pagedGoto", "", index + 1)
    /\ UNCHANGED <<pc, animals, totalPagesState, settled, allAnimals, selectedRegion>>

PagedNext_ ==
    /\ pc = "mounted"
    /\ PagedView = "list"
    /\ ~(currentPage = totalPagesState)       \* disabled={currentPage === totalPages}
    /\ setCurrentPage(Min(currentPage + 1, totalPagesState))
    /\ last' = Event("pagedNext", "", 0)
    /\ UNCHANGED <<pc, animals, totalPagesState, settled, allAnimals, selectedRegion>>

---------------------------------------------------------------------------

PagedNext ==
    \/ PagedMount
    \/ PagedFetchRejected
    \/ PagedFetchBadResponse
    \/ PagedFetchOk
    \/ PagedJsonRejected
    \/ PagedJsonResolves
    \/ PagedPrevious
    \/ PagedGoToPage
    \/ PagedNext_

PagedSpec == Init /\ [][PagedNext]_vars

\* a run of either component
ViewsNext ==
    \/ (pc # "mounted" /\ Next)
    \/ PagedNext

ViewsSpec == Init /\ [][ViewsNext]_vars

\* the load invoked again from outside the view, whatever is in flight
Reload ==
    /\ pc = "mounted"
    /\ fetchAnimals(currentPage)
    /\ last' = Event("reload", "", 0)
    /\ UNCHANGED <<currentPage, pc, animals, totalPagesState, settled, allAnimals, selectedRegion>>

ReloadNext ==
    \/ PagedNext
    \/ Reload

\* the server-paged view with loads invoked from outside
ReloadSpec == Init /\ [][ReloadNext]_vars

---------------------------------------------------------------------------
(* Vocabulary of the properties *)

\* the records loaded and the records the filter selects
D == allAnimals.elems

F == filteredAnimals.elems

IsArray == allAnimals.type = "array"

\* the least k with k * d >= n
CeilDiv(n, d) == CHOOSE k \in 0..n : k * d >= n /\ (k = 0 \/ (k - 1) * d < n)

\* the page count the specification defines: floored at 1
SpecTotalPages == Max(1, CeilDiv(Len(F), ITEMS_PER_PAGE))

ClampPage(requested, total) == Max(1, Min(requested, total))

CountRegion(r) == Cardinality({ i \in DOMAIN D : D[i].region = r })

CanonicalIndex(r) == CHOOSE k \in DOMAIN allRegions : allRegions[k] = r

RECURSIVE ConcatPages(_)
ConcatPages(p) == IF p <= 0 THEN <<>> ELSE ConcatPages(p - 1) \o PageSlice(p)

---------------------------------------------------------------------------
(* Properties *)

\* C1: in every reachable state currentPage is an integer with
\* 1 <= currentPage <= totalPages, totalPages being the page count of the
\* current filtered dataset (1 when it is empty).
C1_PageInRange ==
    IsArray => (currentPage \in Int /\ 1 <= currentPage /\ currentPage <= SpecTotalPages)

\* C2: the page count the view computes for n filtered records is
\* max(1, ceil(n / 20)): 1 and never 0 when the filtered dataset is empty, the
\* visible page then being empty with no error raised.
C2_TotalPagesFloor ==
    View = "list" =>
        /\ totalPages = Max(1, CeilDiv(Len(F), ITEMS_PER_PAGE))
        /\ (Len(F) = 0 => (ShownAnimals = <<>> /\ error = null))

\* C3: a region selection sets the filter and resets currentPage to 1 in one
\* step, whatever the page and the filter were before; no step changes the
\* filter and leaves a page other than 1.
C3_RegionResetsPage ==
    [][ /\ (last'.op = "region" => (selectedRegion' = last'.arg /\ currentPage' = 1))
        /\ (selectedRegion' # selectedRegion => (last'.op = "region" /\ currentPage' = 1))
      ]_vars

\* C3 happens: on the last page (2) of a region's records 'all' is selected,
\* which has more pages, and the page is 1.
C3_Witness ==
    /\ last.op = "region"
    /\ last.region # "all"
    /\ last.page >= 2
    /\ last.page = MathCeil(CountRegion(last.region), ITEMS_PER_PAGE)
    /\ selectedRegion = "all"
    /\ totalPages > last.page
    /\ currentPage = 1

\* C4: the filtered dataset is the whole dataset, in order, under 'all'; under
\* a region R it is the records of region R and only those, in the dataset's
\* order, none twice and none missing.
C4_FilteredView ==
    IsArray =>
        /\ (selectedRegion = "all" => filteredAnimals = allAnimals)
        /\ (selectedRegion # "all" =>
              /\ \A i \in DOMAIN F :
                    /\ F[i].region = selectedRegion
                    /\ F[i].id \in DOMAIN D
                    /\ D[F[i].id] = F[i]
              /\ \A i \in 1..(Len(F) - 1) : F[i].id < F[i + 1].id
              /\ Len(F) = CountRegion(selectedRegion))

\* C4 happens: a region is selected that some, and not all, records have.
C4_Witness ==
    /\ View = "list"
    /\ selectedRegion # "all"
    /\ Len(F) >= 2
    /\ Len(F) < Len(D)
    /\ D[1].region # selectedRegion

\* C5: the selectable regions have no duplicates, are exactly the canonical
\* regions (of the 16) that some record has, and stand in canonical order
\* whatever the order of the records; a record of a region outside the
\* canonical list is never selectable and is still listed under 'all'.
C5_AvailableRegions ==
    IsArray =>
        LET A       == availableRegions
            present == { D[i].region : i \in DOMAIN D }
        IN  /\ Len(allRegions) = 16
            /\ \A i, j \in DOMAIN A : i # j => A[i] # A[j]
            /\ Range(A) = present \cap Range(allRegions)
            /\ \A i, j \in DOMAIN A : i < j => CanonicalIndex(A[i]) < CanonicalIndex(A[j])
            /\ \A i \in DOMAIN D :
                  D[i].region \notin Range(allRegions) =>
                      /\ D[i].region \notin Range(A)
                      /\ (selectedRegion = "all" => D[i] \in Range(F))

\* C5 happens: the records name two canonical regions against the canonical
\* order and a region outside the list.
C5_Witness ==
    /\ View = "list"
    /\ Len(D) >= 3
    /\ D[1].region = "Biobío"
    /\ D[2].region = "Isla de Pascua"
    /\ D[3].region = "Arica y Parinacota"
    /\ availableRegions = << "Arica y Parinacota", "Biobío" >>
    /\ selectedRegion = "all"

\* C6: the visible page is the records of the filtered dataset at the
\* (0-based) positions from (currentPage-1)*20 up to, not including,
\* min(currentPage*20, filteredCount); with a non-empty filtered dataset the
\* slice starts inside it and the page is non-empty; the page is empty only
\* when the filtered dataset is.
C6_VisibleSlice ==
    IsArray =>
        LET n  == Len(F)
            lo == (currentPage - 1) * ITEMS_PER_PAGE
            hi == Min(currentPage * ITEMS_PER_PAGE, n)
            I  == { i \in 0..(n - 1) : lo <= i /\ i < hi }
        IN  /\ Len(currentAnimals) = Cardinality(I)
            /\ \A k \in DOMAIN currentAnimals : currentAnimals[k] = F[lo + k]
            /\ (n > 0 => (0 <= lo /\ lo < n /\ currentAnimals # <<>>))
            /\ (currentAnimals = <<>> => n = 0)
            /\ ShownAnimals \in { <<>>, currentAnimals }

\* C6 happens: the last, partial page of a region's records is shown.
C6_Witness ==
    /\ View = "list"
    /\ selectedRegion # "all"
    /\ currentPage = 2
    /\ totalPages = 2
    /\ Len(F) % ITEMS_PER_PAGE # 0
    /\ Len(ShownAnimals) = Len(F) - ITEMS_PER_PAGE

\* C7: for n >= 1 filtered records the pages 1..totalPages partition them:
\* 20 records on every page but the last, n - 20*(totalPages-1) (from 1 to 20)
\* on the last, the pages in order concatenating to the filtered dataset, each
\* record on exactly one page.
C7_PagesPartition ==
    (IsArray /\ Len(F) >= 1) =>
        LET n == Len(F)
        IN  /\ totalPages >= 1
            /\ \A p \in 1..(totalPages - 1) : Len(PageSlice(p)) = 20
            /\ Len(PageSlice(totalPages)) = n - 20 * (totalPages - 1)
            /\ Len(PageSlice(totalPages)) \in 1..20
            /\ ConcatPages(totalPages) = F
            /\ UNION { Range(PageSlice(p)) : p \in 1..totalPages } = Range(F)
            /\ \A p, q \in 1..totalPages :
                  p # q => Range(PageSlice(p)) \cap Range(PageSlice(q)) = {}

\* C7 happens: 45 records of one region give pages of 20, 20 and 5.
C7_Witness ==
    /\ View = "list"
    /\ Len(D) = 45
    /\ \A i \in DOMAIN D : D[i].region = "Biobío"
    /\ selectedRegion = "Biobío"
    /\ totalPages = 3
    /\ Len(PageSlice(1)) = 20
    /\ Len(PageSlice(2)) = 20
    /\ Len(PageSlice(3)) = 5

\* C8: 'previous' sets currentPage to max(1, currentPage-1) and 'next' sets it
\* to currentPage+1 clamped into [1, totalPages]; neither yields a page below 1
\* or above totalPages, the empty filtered dataset included.
C8_PrevNextClamped ==
    [][ /\ (last'.op = "previous" => currentPage' = Max(1, currentPage - 1))
        /\ (last'.op = "next" =>
              /\ currentPage' = ClampPage(currentPage + 1, SpecTotalPages)
              /\ currentPage' >= 1)
      ]_vars

\* C9: after a load that failed (the call rejected, or the status was no
\* success) the error is set, the loading flag is cleared and no record is
\* handed to the presentation layer.
C9_FailedLoad ==
    last.op \in {"fetchRejected", "badResponse"} =>
        /\ error # null
        /\ isLoading = FALSE
        /\ View = "error"
        /\ ShownAnimals = <<>>

\* C9 happens: the network call rejected and the view shows the error.
C9_Witness ==
    /\ last.op = "fetchRejected"
    /\ pc = "done"
    /\ error = ErrorMessage

\* C10: a success response whose body is not parseable, or parseable without
\* the `data` sequence, ends as a non-success response does: error set,
\* loading cleared, no dataset installed or shown.
C10_MalformedIsError ==
    (last.op = "jsonRejected" \/ (last.op = "jsonResolved" /\ last.arg # "data")) =>
        /\ error # null
        /\ isLoading = FALSE
        /\ View = "error"
        /\ allAnimals = Array(<<>>)
        /\ ShownAnimals = <<>>

\* C11: the view calls fetch exactly once, when it starts; no step issues a
\* second call, and once the error is set no step of the view issues a call
\* or leaves the error state.
C11_OneRequestNoRetry ==
    [][ /\ fetchCalls' <= 1
        /\ (pc' # "mount" => fetchCalls' = 1)
        /\ (fetchCalls' # fetchCalls => (pc = "mount" /\ last'.op = "fetchStart"))
        /\ (error # null =>
              (fetchCalls' = fetchCalls /\ error' = error /\ View' = "error"))
      ]_vars

\* C11 happens: the one call failed and the view rests in the error state.
C11_Witness ==
    /\ fetchCalls = 1
    /\ View = "error"
    /\ last.op = "badResponse"

\* C14: a page navigation (go-to-page, previous, next) changes the page and
\* nothing else: dataset, filter, filtered dataset, region list, loading flag
\* and error stay; a region selection leaves dataset, region list, loading
\* flag and error as they were; neither puts the view into the error state.
C14_NavigationFrame ==
    [][ /\ (last'.op \in {"goto", "previous", "next"} =>
              /\ allAnimals' = allAnimals
              /\ selectedRegion' = selectedRegion
              /\ filteredAnimals' = filteredAnimals
              /\ availableRegions' = availableRegions
              /\ isLoading' = isLoading
              /\ error' = error
              /\ View' = "list")
        /\ (last'.op = "region" =>
              /\ allAnimals' = allAnimals
              /\ availableRegions' = availableRegions
              /\ isLoading' = isLoading
              /\ error' = error
              /\ View' = "list")
      ]_vars

\* C14 happens: under a region filter a page link moved the view to another page.
C14_Witness ==
    /\ last.op = "goto"
    /\ last.page # currentPage
    /\ selectedRegion # "all"
    /\ Len(F) < Len(D)
    /\ View = "list"

\* C15: the filter is 'all' or one of the 16 canonical regions in every
\* reachable state; before the load starts it is 'all' with page 1.
C15_FilterDomain ==
    /\ selectedRegion \in {"all"} \cup Range(allRegions)
    /\ Len(allRegions) = 16
    /\ (pc = "mount" => (selectedRegion = "all" /\ currentPage = 1))

\* C15 happens: a canonical region is selected over records some of which
\* carry a region outside the canonical list.
C15_Witness ==
    /\ View = "list"
    /\ selectedRegion = "Arica y Parinacota"
    /\ \E i \in DOMAIN D : D[i].region \notin Range(allRegions)

C17_SelectedRegionPresent ==
    IsArray =>
        /\ (selectedRegion # "all" => Len(F) >= 1)
        /\ (Len(F) = 0 => (selectedRegion = "all" /\ Len(D) = 0))

\* C17 happens: the selected region has exactly one record among several.
C17_Witness ==
    /\ View = "list"
    /\ selectedRegion # "all"
    /\ Len(F) = 1
    /\ Len(D) >= 3

\* C19: if the network call resolves or rejects in the end, the load started
\* at initialization completes and the loading flag becomes false, on every
\* path; from then on the flag stays false.
C19_LoadCompletes ==
    /\ <>(pc = "done" /\ isLoading = FALSE)
    /\ [](pc = "done" => [](isLoading = FALSE))

\* C19 happens: the load completed through the failure of response.json()
\* and the flag is false.
C19_Witness ==
    /\ pc = "done"
    /\ isLoading = FALSE
    /\ last.op = "jsonRejected"

\* C12: while a load is in progress (its call issued and not yet settled) the
\* loading flag is set and the view returns the loading placeholder: no
\* record, no navigation control, no filter control.
C12_LoadingSuppresses ==
    /\ (pc \in {"fetch", "json"} =>
          (isLoading = TRUE /\ View = "loading" /\ ShownAnimals = <<>>))
    /\ (inflight # {} =>
          (isLoading = TRUE /\ PagedView = "loading" /\ PagedShownAnimals = <<>>))

\* C12 happens: a later page is being loaded while the records of an earlier
\* response are held, and they are not shown.
C12_Witness ==
    /\ inflight # {}
    /\ fetchCalls >= 2
    /\ animals.type = "array"
    /\ Len(animals.elems) >= 1
    /\ PagedShownAnimals = <<>>

\* C13: a load started while another is in flight is added to it (none is
\* cancelled, none merged), a call leaves only by settling, and once all calls
\* have settled successfully the dataset and page count held are those of the
\* call that settled last, whichever was started last.
C13_LastResolvedWins ==
    [][ /\ (fetchCalls' # fetchCalls =>
              /\ fetchCalls' = fetchCalls + 1
              /\ Cardinality(inflight') = Cardinality(inflight) + 1
              /\ \A r \in inflight : r \in inflight')
        /\ (\A r \in inflight :
              \/ \E q \in inflight' : q.id = r.id
              \/ settled'.id = r.id)
        /\ ((inflight' = {} /\ fetchCalls' >= 1 /\ settled'.failures = 0) =>
              /\ animals' = settled'.data
              /\ totalPagesState' = settled'.last_page)
      ]_vars

\* C13 happens: two loads overlapped, the second settled first and the first
\* last, with different data, and the data of the first is held.
C13_Witness ==
    /\ fetchCalls = 2
    /\ inflight = {}
    /\ settled.failures = 0
    /\ settled.id = 1
    /\ settled.prevId = 2
    /\ settled.prevData # settled.data
    /\ animals = settled.data

\* C18: in the server-paged view, when it is not loading and shows no error,
\* nothing is in flight and the records and page count held are those of the
\* response to the latest request, which was the request for currentPage.
C18_ShownPageIsCurrent ==
    (pc = "mounted" /\ isLoading = FALSE /\ error = null) =>
        /\ inflight = {}
        /\ settled.ok
        /\ settled.id = fetchCalls
        /\ settled.page = currentPage
        /\ animals = settled.data
        /\ totalPagesState = settled.last_page

\* C18 happens: after a navigation to page 2 the records of the response for
\* page 2 are shown.
C18_Witness ==
    /\ PagedView = "list"
    /\ currentPage = 2
    /\ fetchCalls >= 2
    /\ settled.page = 2
    /\ Len(PagedShownAnimals) >= 1

====
